---- MODULE Spec2Model ----
(***************************************************************************)
(* Model of the rate-limited demultiplexer of                              *)
(* chain/network/src/concurrency/demux.rs.                                 *)
(*                                                                         *)
(* One dispatcher task owns the token bucket (tokens, next_token), the     *)
(* pending queue (calls) and the closed flag.  Callers build a Call        *)
(* envelope {arg, out, handler}, push it into the unbounded mpsc channel   *)
(* (stream) and wait on their private oneshot channel (outbox).  Every     *)
(* released batch is run by its own spawned task (an entry of batches).    *)
(*                                                                         *)
(* A call is identified by the caller that issued it: caller c issues at   *)
(* most one call, whose envelope is (arg[c], outbox[c], handler of c); what *)
(* a handler returns is chosen when it is invoked.                         *)
(*                                                                         *)
(* Time is kept relative to the scheduled refill: next_token is <<>> for   *)
(* None and <<d>> for Some(deadline) with d = deadline - now, cut at 0.    *)
(***************************************************************************)
EXTENDS Integers, Sequences, FiniteSets

VARIABLES
    tel,         \* the TelemetryActor: its config, its clock, what it sent
    rl,          \* RateLimit {burst, qps} given to Demux::new
    handles,     \* number of Demux handles alive (clones of the Stream)
    pc,          \* per caller: position in the future returned by call()
    arg,         \* per caller: Call.arg
    stream,      \* mpsc channel buffer: calls sent, not yet received
    disp,        \* position of the dispatcher task
    calls,       \* dispatcher: pending queue
    closed,      \* dispatcher: closed flag
    tokens,      \* dispatcher: tokens
    next_token,  \* dispatcher: <<>> = None, <<d>> = Some(now + d)
    batches,     \* spawned batch tasks, in release order
    outbox,      \* per caller: state of its oneshot channel
    result,      \* per caller: value returned by call(), <<>> if none yet
    hexec,       \* per caller: number of times its handler was invoked
    delivered,   \* per caller: number of successful out.send to it
    refills,     \* number of refill events handled by the dispatcher
    received     \* the calls the dispatcher pushed to its queue, in order

vars == <<tel, rl, handles, pc, arg, stream, disp, calls, closed, tokens,
          next_token, batches, outbox, result, hexec, delivered, refills, received>>

callerVars == <<pc, arg, result>>
dispVars == <<disp, calls, closed, tokens, next_token, refills, received>>
demuxVars == <<rl, handles, pc, arg, stream, disp, calls, closed, tokens,
               next_token, batches, outbox, result, hexec, delivered, refills, received>>

----------------------------------------------------------------------------
(* Bounds *)

MaxCalls == 3
MaxBurst == 2

(* time::Duration::SECOND, in ticks of the model's clock *)
TicksPerSecond == 2
MaxInterval == 2      \* reporting_interval ranges over 0..MaxInterval
MaxEndpoints == 2     \* number of telemetry endpoints
MaxTime == 5          \* the telemetry clock runs from 0 to MaxTime
MaxEvents == 4        \* TelemetryEvent messages handled

Callers == 1..MaxCalls
Bursts == 0..MaxBurst
QpsValues == {-1, 0, 1}
ValidQps == {q \in QpsValues : q > 0}

(* What a caller-supplied handler may do: a correct one and two that break *)
(* the [Arg;n] -> [Res;n] contract.                                        *)
GoodHandlers == {"double"}
Handlers == {"double", "short", "long"}

----------------------------------------------------------------------------
(* Pure helpers *)

RECURSIVE SeqSum(_)
SeqSum(s) == IF s = <<>> THEN 0 ELSE Head(s) + SeqSum(Tail(s))

Range(s) == {s[i] : i \in DOMAIN s}

(* The result collection a handler returns for a batch of arguments. *)
HandlerResult(kind, args) ==
    LET dbl == [i \in DOMAIN args |-> 2 * args[i]]
    IN  CASE kind = "double" -> dbl
          [] kind = "short"  -> SubSeq(dbl, 1, Len(dbl) - 1)
          [] kind = "long"   -> Append(dbl, 0)
          [] OTHER           -> <<>>

(* interval = SECOND / rl.qps *)
Interval == TicksPerSecond \div rl.qps

SendersHandlesOnly == handles

(* Live mpsc senders: the handles and the futures of call() that hold     *)
(* their clone of the stream (from creation until they complete or are    *)
(* dropped).                                                               *)
Senders ==
    handles + Cardinality({c \in DOMAIN pc : pc[c] \in {"created", "waiting"}})

EmptyBox == [st |-> "empty", val |-> 0]
FullBox(v) == [st |-> "full", val |-> v]
DroppedBox == [st |-> "dropped", val |-> 0]

(* Dropping the oneshot senders of the calls in s without sending. *)
DropOuts(s) ==
    [c \in DOMAIN outbox |->
        IF c \in Range(s) /\ outbox[c].st = "empty" THEN DroppedBox ELSE outbox[c]]

----------------------------------------------------------------------------
(* Demux::new *)

(* The arguments n callers are going to pass: 0, 1, .., n-1, so that the   *)
(* results of different calls differ.                                      *)
CallArgs(n) == [c \in 1..n |-> c - 1]

(* TelemetryActor::new: the last update is set one reporting interval     *)
(* before the time of construction.  sent, requests and handled record     *)
(* the times of the events that passed the throttle, the POST requests     *)
(* spawned and the events handled.                                          *)
TelemetryActorNewNotBackdated(interval, endpoints, t0) ==
    [reporting_interval |-> interval, endpoints |-> endpoints, clock |-> t0,
     last_telemetry_update |-> t0,
     handled |-> 0, sent |-> <<>>, requests |-> 0]
TelemetryActorNew(interval, endpoints, t0) ==
    [reporting_interval |-> interval, endpoints |-> endpoints, clock |-> t0,
     last_telemetry_update |-> t0 - interval,
     handled |-> 0, sent |-> <<>>, requests |-> 0]

(* impl Default for TelemetryActor: no endpoint, a zero interval *)
TelemetryActorDefault == TelemetryActorNew(0, 0, 0)

InitWith(argss, bursts, qpss, tels) ==
    /\ tel \in tels
    /\ rl \in [burst : bursts, qps : qpss]
    /\ handles = 1
    /\ arg \in argss
    /\ pc = [c \in DOMAIN arg |-> "idle"]
    /\ stream = <<>>
    /\ disp = "start"
    /\ calls = <<>>
    /\ closed = FALSE
    /\ tokens = 0
    /\ next_token = <<>>
    /\ batches = <<>>
    /\ outbox = [c \in DOMAIN arg |-> EmptyBox]
    /\ result = [c \in DOMAIN arg |-> <<>>]
    /\ hexec = [c \in DOMAIN arg |-> 0]
    /\ delivered = [c \in DOMAIN arg |-> 0]
    /\ refills = 0
    /\ received = <<>>

Init == InitWith({CallArgs(MaxCalls)}, Bursts, QpsValues, {TelemetryActorDefault})

----------------------------------------------------------------------------
(* Demux::call: the future it returns *)

(* call(arg, f): clones the stream and builds the future (not yet polled). *)
(* Callers are numbered in the order in which they invoke call().          *)
Call(c) ==
    /\ handles > 0
    /\ pc[c] = "idle"
    /\ \A d \in DOMAIN pc : d < c => pc[d] # "idle"
    /\ pc' = [pc EXCEPT ![c] = "created"]
    /\ UNCHANGED <<tel, rl, handles, arg, stream, dispVars, batches, outbox, result,
                   hexec, delivered>>

(* The mpsc receiver exists until the dispatcher task ends. *)
ReceiverAlive == disp \in {"start", "wait"}

(* First poll: oneshot::channel(), stream.send(Call{..}).ok().unwrap().    *)
Send(c) ==
    /\ pc[c] = "created"
    /\ IF ReceiverAlive
         THEN /\ stream' = Append(stream, c)
              /\ pc' = [pc EXCEPT ![c] = "waiting"]
         ELSE /\ pc' = [pc EXCEPT ![c] = "sendfail"]
              /\ UNCHANGED stream
    /\ UNCHANGED <<tel, rl, handles, arg, dispVars, batches, outbox, result,
                   hexec, delivered>>

(* recv.await.unwrap(): a value completes the call, a dropped sender is a  *)
(* panic in the caller.                                                    *)
Receive(c) ==
    /\ pc[c] = "waiting"
    /\ outbox[c].st # "empty"
    /\ IF outbox[c].st = "full"
         THEN /\ pc' = [pc EXCEPT ![c] = "done"]
              /\ result' = [result EXCEPT ![c] = <<outbox[c].val>>]
         ELSE /\ pc' = [pc EXCEPT ![c] = "failed"]
              /\ UNCHANGED result
    /\ UNCHANGED <<tel, rl, handles, arg, stream, dispVars, batches, outbox,
                   hexec, delivered>>

(* The caller drops the future of call() before it completed. *)
Abandon(c) ==
    /\ pc[c] \in {"created", "waiting"}
    /\ pc' = [pc EXCEPT ![c] = "abandoned"]
    /\ UNCHANGED <<tel, rl, handles, arg, stream, dispVars, batches, outbox,
                   result, hexec, delivered>>

(* The last Demux handle is dropped. *)
DropHandle ==
    /\ handles > 0
    /\ handles' = handles - 1
    /\ UNCHANGED <<tel, rl, callerVars, stream, dispVars, batches, outbox, hexec,
                   delivered>>

----------------------------------------------------------------------------
(* Demux::new: the dispatcher task *)

(* while !calls.is_empty() || !closed *)
LoopCond(cs, cl) == cs # <<>> \/ ~cl

(* if tokens < rl.burst && next_token.is_none() { next_token = Some(now + interval) } *)
ScheduleRefillRestart(tk, nt) ==
    IF tk < rl.burst THEN <<Interval>> ELSE nt
ScheduleRefillAtFullBucket(tk, nt) ==
    IF tk <= rl.burst /\ nt = <<>> THEN <<Interval>> ELSE nt
ScheduleRefillWhenEmpty(tk, nt) ==
    IF tk = 0 /\ rl.burst > 0 /\ nt = <<>> THEN <<Interval>> ELSE nt
ScheduleRefill(tk, nt) ==
    IF tk < rl.burst /\ nt = <<>> THEN <<Interval>> ELSE nt

(* if !calls.is_empty() && tokens > 0 *)
(* A batch whose task was spawned and has not finished. *)
InFlight(b) == batches[b].st \in {"spawned", "running"}

ReleaseCondPairsOnly(cs, tk) == Len(cs) >= 2 /\ tk > 0
ReleaseCondIdleOnly(cs, tk) == cs # <<>> /\ tk > 0 /\ \A b \in DOMAIN batches : ~InFlight(b)
ReleaseCondTokensOnly(cs, tk) == tk > 0
ReleaseCond(cs, tk) == cs # <<>> /\ tk > 0

(* tokens -= 1 *)
ConsumeTokenFree(tk, cs) == tk
ConsumeTokenPerCall(tk, cs) == tk - Len(cs)
ConsumeToken(tk, cs) == tk - 1

(* std::mem::take(&mut calls): what the batch gets and what stays behind *)
TakenCallsReversed(cs) == [i \in DOMAIN cs |-> cs[Len(cs) + 1 - i]]
TakenCallsFirstOnly(cs) == <<Head(cs)>>
TakenCalls(cs) == cs
LeftCallsCloned(cs) == cs
LeftCalls(cs) == <<>>

(* tokio::spawn of the batch task *)
(* age is the time since the release, counted up to one refill interval. *)
NewBatch(cs, ev) ==
    [calls |-> cs, args |-> <<>>, st |-> "spawned", res |-> <<>>, by |-> ev,
     age |-> 0]

(* tokio::select! without an else branch panics when the preconditions of  *)
(* all its branches are false.                                             *)
SelectDisabled(cl, nt) == nt = <<>> /\ cl

(* The rest of a loop iteration after the select! handled event ev, up to *)
(* the next suspension in select!: release, loop condition, scheduling.   *)
FinishIteration(cs, cl, tk, nt, ev) ==
    LET rel == ReleaseCond(cs, tk)
        cs2 == IF rel THEN LeftCalls(cs) ELSE cs
        tk2 == IF rel THEN ConsumeToken(tk, cs) ELSE tk
        go  == LoopCond(cs2, cl)
        nt2 == IF go THEN ScheduleRefill(tk2, nt) ELSE nt
        abort == go /\ SelectDisabled(cl, nt2)
    IN  /\ batches' = IF rel THEN Append(batches, NewBatch(TakenCalls(cs), ev))
                             ELSE batches
        /\ tokens' = tk2
        /\ closed' = cl
        /\ next_token' = nt2
        /\ calls' = IF abort THEN <<>> ELSE cs2
        /\ outbox' = IF abort THEN DropOuts(cs2) ELSE outbox
        /\ disp' = IF ~go THEN "done" ELSE IF abort THEN "panicked" ELSE "wait"

(* The task starts: lines 113-117 and the first pass to the select!.       *)
(* (SECOND / qps).try_into().unwrap() panics for a non-positive qps, after *)
(* the locals were set, which drops the receiver with whatever was already *)
(* sent.                                                                   *)
Start ==
    /\ disp = "start"
    /\ IF rl.qps <= 0
         THEN /\ disp' = "panicked"
              /\ outbox' = DropOuts(stream)
              /\ stream' = <<>>
              /\ tokens' = rl.burst
              /\ UNCHANGED <<calls, closed, next_token, batches>>
         ELSE /\ FinishIteration(<<>>, FALSE, rl.burst, <<>>, "start")
              /\ UNCHANGED stream
    /\ UNCHANGED <<tel, rl, handles, callerVars, hexec, delivered, refills, received>>

(* select! branch 1: sleep_until(next_token) completed *)
Refill ==
    /\ disp = "wait"
    /\ next_token = <<0>>
    /\ refills' = refills + 1
    /\ FinishIteration(calls, closed, tokens + 1, <<>>, "refill")
    /\ UNCHANGED <<tel, rl, handles, callerVars, stream, hexec, delivered, received>>

(* calls.push(call) *)
PushCallFront(cs, c) == <<c>> \o cs
PushCall(cs, c) == Append(cs, c)

(* select! branch 2: recv.recv() returned Some(call) *)
RecvCall ==
    /\ disp = "wait"
    /\ ~closed
    /\ stream # <<>>
    /\ stream' = Tail(stream)
    /\ received' = Append(received, Head(stream))
    /\ FinishIteration(PushCall(calls, Head(stream)), closed, tokens, next_token, "recv")
    /\ UNCHANGED <<tel, rl, handles, callerVars, hexec, delivered, refills>>

(* select! branch 2: recv.recv() returned None (no sender left, buffer empty) *)
RecvClosed ==
    /\ disp = "wait"
    /\ ~closed
    /\ stream = <<>>
    /\ Senders = 0
    /\ FinishIteration(calls, TRUE, tokens, next_token, "close")
    /\ UNCHANGED <<tel, rl, handles, callerVars, stream, hexec, delivered, refills, received>>

(* One unit of time passes while a refill is scheduled. *)
Tick ==
    /\ disp = "wait"
    /\ next_token # <<>>
    /\ next_token[1] > 0
    /\ next_token' = <<next_token[1] - 1>>
    /\ batches' = [b \in DOMAIN batches |->
                      [batches[b] EXCEPT !.age = IF @ < Interval THEN @ + 1 ELSE @]]
    /\ UNCHANGED <<tel, rl, handles, callerVars, stream, disp, calls, closed, tokens,
                   outbox, hexec, delivered, refills, received>>

----------------------------------------------------------------------------
(* The batch task *)

(* for call in calls { args.push(call.arg); ... } *)
BatchArgs(cs) == [i \in DOMAIN cs |-> arg[cs[i]]]

(* handlers.into_iter().next().unwrap() *)
FirstHandlerLast(cs) == cs[Len(cs)]
FirstHandler(cs) == Head(cs)

(* Lines 148-160: split the envelopes, pick the handler, invoke it. *)
ExecStart(b) ==
    /\ batches[b].st = "spawned"
    /\ LET h == FirstHandler(batches[b].calls)
       IN  hexec' = [hexec EXCEPT ![h] = @ + 1]
    /\ batches' = [batches EXCEPT ![b].st = "running",
                                  ![b].args = BatchArgs(batches[b].calls)]
    /\ UNCHANGED <<tel, rl, handles, callerVars, stream, dispVars, outbox, delivered>>

(* if res.len() != outs.len() { panic!(..) } *)
LengthMismatchShortOnly(res, outs) == Len(res) < Len(outs)
LengthMismatch(res, outs) == Len(res) # Len(outs)

(* for (res, out) in res.zip(outs) { let _ = out.send(res); }             *)
(* out.send fails, and is ignored, when the receiver is gone.              *)
FanOutIndexReversed(outs, c) == CHOOSE i \in DOMAIN outs : outs[Len(outs) + 1 - i] = c
FanOutIndex(outs, c) == CHOOSE i \in DOMAIN outs : outs[i] = c

FanOutStopsAtClosed(res, outs) ==
    LET n == IF Len(res) < Len(outs) THEN Len(res) ELSE Len(outs)
        gone == {i \in 1..n : pc[outs[i]] # "waiting"}
        hit(c) == \E i \in 1..n : outs[i] = c /\ \A j \in gone : i < j
    IN  /\ outbox' = [c \in DOMAIN outbox |->
                        IF hit(c)
                          THEN FullBox(res[FanOutIndex(outs, c)])
                          ELSE IF c \in Range(outs) /\ outbox[c].st = "empty"
                                 THEN DroppedBox
                                 ELSE outbox[c]]
        /\ delivered' = [c \in DOMAIN delivered |->
                        IF hit(c) THEN delivered[c] + 1 ELSE delivered[c]]

FanOut(res, outs) ==
    LET n == IF Len(res) < Len(outs) THEN Len(res) ELSE Len(outs)
        hit(c) == \E i \in 1..n : outs[i] = c
    IN  /\ outbox' = [c \in DOMAIN outbox |->
                        IF hit(c)
                          THEN IF pc[c] = "waiting"
                                 THEN FullBox(res[FanOutIndex(outs, c)])
                                 ELSE outbox[c]
                          ELSE IF c \in Range(outs) /\ outbox[c].st = "empty"
                                 THEN DroppedBox
                                 ELSE outbox[c]]
        /\ delivered' = [c \in DOMAIN delivered |->
                        IF hit(c) /\ pc[c] = "waiting"
                          THEN delivered[c] + 1 ELSE delivered[c]]

(* Lines 160-172: the handler's future completed with res. *)
(* the reply channels the batch task owns, dropped when it panics *)
PanicOutsEveryCall(b) == [c \in 1..Len(arg) |-> c]
PanicOuts(b) == batches[b].calls

ExecFinish(b, kind) ==
    /\ batches[b].st = "running"
    /\ LET bt  == batches[b]
           res == HandlerResult(kind, bt.args)
       IN  IF LengthMismatch(res, bt.calls)
             THEN /\ batches' = [batches EXCEPT ![b].st = "panicked", ![b].res = res]
                  /\ outbox' = DropOuts(PanicOuts(b))
                  /\ UNCHANGED delivered
             ELSE /\ batches' = [batches EXCEPT ![b].st = "done", ![b].res = res]
                  /\ FanOut(res, bt.calls)
    /\ UNCHANGED <<tel, rl, handles, callerVars, stream, dispVars, hexec>>

----------------------------------------------------------------------------

CallerStep ==
    \/ \E c \in DOMAIN pc : Call(c)
    \/ \E c \in DOMAIN pc : Send(c)
    \/ \E c \in DOMAIN pc : Receive(c)
    \/ \E c \in DOMAIN pc : Abandon(c)
    \/ DropHandle

DispatcherStep == Start \/ Refill \/ RecvCall \/ RecvClosed

BatchStep ==
    \/ \E b \in DOMAIN batches : ExecStart(b)
    \/ \E b \in DOMAIN batches, k \in Handlers : ExecFinish(b, k)

Next == CallerStep \/ DispatcherStep \/ Tick \/ BatchStep

Spec == Init /\ [][Next]_vars

----------------------------------------------------------------------------
(* The end-to-end example: burst = 1, five calls with arguments 0..4 sent  *)
(* in that order, all of them before any caller takes its result, and the  *)
(* handler f(args) = [2 * a].                                              *)

E2EArgs == <<0, 1, 2, 3, 4>>

InitE2E == InitWith({E2EArgs}, {1}, ValidQps, {TelemetryActorDefault})

SendInOrder(c) ==
    /\ \A d \in DOMAIN pc : d < c => pc[d] \notin {"idle", "created"}
    /\ Send(c)

ReceiveAfterAllSent(c) ==
    /\ \A d \in DOMAIN pc : pc[d] \notin {"idle", "created"}
    /\ Receive(c)

NextE2E ==
    \/ \E c \in DOMAIN pc : Call(c)
    \/ \E c \in DOMAIN pc : SendInOrder(c)
    \/ \E c \in DOMAIN pc : ReceiveAfterAllSent(c)
    \/ Start
    \/ Refill
    \/ RecvCall
    \/ Tick
    \/ \E b \in DOMAIN batches : ExecStart(b)
    \/ \E b \in DOMAIN batches : ExecFinish(b, "double")

SpecE2E == InitE2E /\ [][NextE2E]_vars

----------------------------------------------------------------------------
(* Fair scheduling of the dispatcher, the refill timer, the batch tasks    *)
(* and the callers' futures, with a valid rate limit and handlers that     *)
(* terminate and return a collection of the right length.                  *)

InitLive == InitWith({CallArgs(MaxCalls)}, Bursts, ValidQps, {TelemetryActorDefault})

BatchStepLive ==
    \/ \E b \in DOMAIN batches : ExecStart(b)
    \/ \E b \in DOMAIN batches, k \in GoodHandlers : ExecFinish(b, k)

PollStep == \E c \in DOMAIN pc : Send(c) \/ Receive(c)

NextLive == CallerStep \/ DispatcherStep \/ Tick \/ BatchStepLive

SpecLive ==
    /\ InitLive
    /\ [][NextLive]_vars
    /\ WF_vars(DispatcherStep)
    /\ WF_vars(Tick)
    /\ WF_vars(BatchStepLive)
    /\ WF_vars(PollStep)

----------------------------------------------------------------------------
(* The telemetry actor (chain/telemetry), with the demultiplexer left     *)
(* alone: a clock, and the handling of TelemetryEvent messages.            *)

(* Instant::duration_since, which saturates at zero *)
DurationSince(a, b) == IF a >= b THEN a - b ELSE 0

(* the throttle test of handle *)
Throttled(now, last, interval) == DurationSince(now, last) < interval

InitTelemetry ==
    InitWith({CallArgs(MaxCalls)}, {0}, ValidQps,
             {TelemetryActorNew(i, e, 0) : i \in 0..MaxInterval, e \in 0..MaxEndpoints})

(* The monotonic clock moves on by one unit. *)
ClockTick ==
    /\ tel.clock < MaxTime
    /\ tel' = [tel EXCEPT !.clock = @ + 1]
    /\ UNCHANGED demuxVars

(* Handler<TelemetryEvent>::handle *)
HandleTelemetryEvent ==
    /\ tel.handled < MaxEvents
    /\ LET now == tel.clock
       IN  IF Throttled(now, tel.last_telemetry_update, tel.reporting_interval)
           THEN tel' = [tel EXCEPT !.handled = @ + 1]
           ELSE tel' = [tel EXCEPT !.handled = @ + 1,
                                   !.requests = @ + tel.endpoints,
                                   !.sent = Append(@, now),
                                   !.last_telemetry_update = now]
    /\ UNCHANGED demuxVars

NextTelemetry == ClockTick \/ HandleTelemetryEvent

SpecTelemetry == InitTelemetry /\ [][NextTelemetry]_vars

----------------------------------------------------------------------------
(* Vocabulary of the properties *)

AllCallers == DOMAIN pc
Batches == DOMAIN batches
Started(b) == batches[b].st # "spawned"
InBatch(c, b) == c \in Range(batches[b].calls)

(* How often call c occurs in sequence s. *)
Count(c, s) == Cardinality({i \in DOMAIN s : s[i] = c})

(* How often call c occurs in the pending queue and the released batches. *)
RECURSIVE CountInBatches(_, _)
CountInBatches(c, bs) ==
    IF bs = <<>> THEN 0 ELSE Count(c, Head(bs).calls) + CountInBatches(c, Tail(bs))
Occurrences(c) == Count(c, calls) + CountInBatches(c, batches)

----------------------------------------------------------------------------
(* C1 - Handler exclusivity.  Of every batch whose task has run, the       *)
(* handler of the first call of the batch was invoked exactly once and the *)
(* handlers of its other calls never; a handler is invoked only through a  *)
(* batch; the number of handler invocations is the number of batches whose *)
(* task has run, which is the number of batches released once no released  *)
(* batch is still waiting to be scheduled.                                 *)
HandlerExclusivity ==
    /\ \A b \in Batches :
          LET cs == batches[b].calls
          IN  /\ hexec[cs[1]] = IF Started(b) THEN 1 ELSE 0
              /\ \A i \in 2..Len(cs) : hexec[cs[i]] = 0
    /\ \A c \in AllCallers : (\A b \in Batches : ~InBatch(c, b)) => hexec[c] = 0
    /\ SeqSum(hexec) = Cardinality({b \in Batches : Started(b)})
    /\ (\A b \in Batches : Started(b)) => SeqSum(hexec) = Len(batches)

(* A batch of two or more calls has run its handler. *)
HandlerExclusivityWitness ==
    \E b \in Batches : Started(b) /\ Len(batches[b].calls) >= 2

(* C2 - Result correspondence.  When the handler of a batch returned a     *)
(* collection of the batch's length, the caller at index i that is still   *)
(* waiting has res[i] in its channel, a caller that completed returned     *)
(* res[i], and nobody was sent more than one value; a caller whose batch   *)
(* has not fanned out has been sent nothing.                               *)
ResultCorrespondence ==
    /\ \A b \in Batches :
          batches[b].st = "done" =>
            /\ Len(batches[b].res) = Len(batches[b].calls)
            /\ \A i \in DOMAIN batches[b].calls :
                  LET c == batches[b].calls[i]
                      r == batches[b].res[i]
                  IN  /\ pc[c] = "waiting" => outbox[c] = FullBox(r)
                      /\ pc[c] = "done" => result[c] = <<r>>
                      /\ outbox[c].st = "full" => outbox[c].val = r
                      /\ pc[c] \in {"waiting", "done"} => delivered[c] = 1
    /\ \A c \in AllCallers :
          /\ delivered[c] <= 1
          /\ (\A b \in Batches : InBatch(c, b) => batches[b].st # "done") =>
                delivered[c] = 0 /\ outbox[c].st # "full" /\ pc[c] # "done"

(* Two callers of one batch completed with different results. *)
ResultCorrespondenceWitness ==
    \E b \in Batches :
        /\ batches[b].st = "done"
        /\ \E i, j \in DOMAIN batches[b].calls :
              /\ i < j
              /\ pc[batches[b].calls[i]] = "done"
              /\ pc[batches[b].calls[j]] = "done"
              /\ result[batches[b].calls[i]] # result[batches[b].calls[j]]

(* C3 - Batch coalescing.  A refill handled while tokens = 0 and K >= 1    *)
(* calls are pending releases exactly one new batch, made of all K calls   *)
(* in queue order, and leaves the queue empty and tokens = 0.              *)
BatchCoalescing ==
    [][(refills' = refills + 1 /\ tokens = 0 /\ calls # <<>>) =>
         /\ Len(batches') = Len(batches) + 1
         /\ SubSeq(batches', 1, Len(batches)) = batches
         /\ batches'[Len(batches')].calls = calls
         /\ calls' = <<>>
         /\ tokens' = 0]_vars

(* A refill released a batch of two or more calls. *)
BatchCoalescingWitness ==
    \E b \in Batches : batches[b].by = "refill" /\ Len(batches[b].calls) >= 2

EnqueueNeverFails ==
    /\ disp = "done" => closed /\ calls = <<>>
    /\ closed => Senders = 0 /\ stream = <<>>
    /\ rl.qps > 0 =>
          /\ ~ReceiverAlive => closed
          /\ \A c \in AllCallers : pc[c] # "sendfail"

(* The dispatcher has exited after releasing a batch, every handle and     *)
(* every future being gone.                                                *)
EnqueueNeverFailsWitness ==
    /\ disp = "done"
    /\ handles = 0
    /\ Len(batches) >= 1
    /\ \E c \in AllCallers : pc[c] = "done"

(* C8 - Configuration violation.  With a non-positive qps the failure is   *)
(* new's own: the background task does not fail later, no call is accepted *)
(* into the channel, and no call fails.                                    *)
BadQpsRejectedByNew ==
    rl.qps <= 0 =>
        /\ disp # "panicked"
        /\ \A c \in AllCallers : pc[c] \notin {"waiting", "failed", "sendfail"}

(* C9 - Length-mismatch fault.  A batch task that finished has panicked    *)
(* exactly when its handler returned a collection of another length than   *)
(* the batch; no caller of a panicked batch was sent or has returned a     *)
(* value, and each of them that still waits finds its sender dropped.      *)
LengthMismatchFault ==
    \A b \in Batches :
        /\ batches[b].st \in {"done", "panicked"} =>
              (batches[b].st = "panicked" <=> Len(batches[b].res) # Len(batches[b].calls))
        /\ batches[b].st = "panicked" =>
              \A c \in Range(batches[b].calls) :
                  /\ delivered[c] = 0
                  /\ result[c] = <<>>
                  /\ pc[c] \in {"waiting", "failed", "abandoned"}
                  /\ pc[c] = "waiting" => outbox[c] = DroppedBox

(* A batch of two panicked on a result of one and both callers saw the     *)
(* failure.                                                                *)
LengthMismatchFaultWitness ==
    \E b \in Batches :
        /\ batches[b].st = "panicked"
        /\ Len(batches[b].calls) >= 2
        /\ Len(batches[b].res) = Len(batches[b].calls) - 1
        /\ \A c \in Range(batches[b].calls) : pc[c] = "failed"

(* C10 - Abandonment safety.  Abandoning a call changes nothing of the     *)
(* channel, the queue, the batches or the result channels; the task of a   *)
(* batch passes the argument of every call of the batch, abandoned or not, *)
(* to the handler; when the handler returns the right length the batch     *)
(* ends done, every caller still waiting is sent the result at its own     *)
(* index, and nothing is sent to an abandoned one.                         *)
AbandonmentSafety ==
    [][/\ \A c \in AllCallers :
             /\ (pc[c] # "abandoned" /\ pc'[c] = "abandoned") =>
                   UNCHANGED <<stream, dispVars, batches, outbox, delivered, hexec, arg>>
             /\ pc[c] = "abandoned" =>
                   /\ delivered'[c] = delivered[c]
                   /\ outbox'[c].st = "full" => outbox'[c] = outbox[c]
       /\ \A b \in Batches :
             LET cs == batches[b].calls
             IN  /\ batches'[b].calls = cs
                 /\ (batches[b].st = "spawned" /\ batches'[b].st # "spawned") =>
                       /\ Len(batches'[b].args) = Len(cs)
                       /\ \A i \in DOMAIN cs : batches'[b].args[i] = arg[cs[i]]
                 /\ (batches[b].st = "running" /\ batches'[b].st # "running"
                        /\ Len(batches'[b].res) = Len(cs)) =>
                       /\ batches'[b].st = "done"
                       /\ \A i \in DOMAIN cs :
                             pc[cs[i]] = "waiting" =>
                               /\ outbox'[cs[i]] = FullBox(batches'[b].res[i])
                               /\ delivered'[cs[i]] = delivered[cs[i]] + 1
      ]_vars

(* A batch completed whose first caller had abandoned before the fan-out   *)
(* and whose later caller returned its result.                             *)
AbandonmentSafetyWitness ==
    \E b \in Batches :
        /\ batches[b].st = "done"
        /\ \E i, j \in DOMAIN batches[b].calls :
              /\ i < j
              /\ pc[batches[b].calls[i]] = "abandoned"
              /\ delivered[batches[b].calls[i]] = 0
              /\ pc[batches[b].calls[j]] = "done"

(* C11 as stated - Token-bucket timing.  From the full bucket the first    *)
(* burst releases wait for no refill, and every later release comes at     *)
(* least one refill interval after the release before it.                  *)
TokenBucketTiming ==
    /\ [](\A b \in Batches : b <= rl.burst => batches[b].by # "refill")
    /\ [][(Len(batches') = Len(batches) + 1 /\ Len(batches) >= 1
             /\ Len(batches) >= rl.burst) =>
            batches[Len(batches)].age >= Interval]_vars

(* C11 - Token-bucket timing, amended.  From the full bucket the first     *)
(* burst releases wait for no refill, and every later release comes at     *)
(* least one refill interval after the release burst places before it.     *)
TokenBucketTimingWindow ==
    /\ [](\A b \in Batches : b <= rl.burst => batches[b].by # "refill")
    /\ [][(Len(batches') = Len(batches) + 1 /\ rl.burst >= 1
             /\ Len(batches) >= rl.burst) =>
            batches[Len(batches) + 1 - rl.burst].age >= Interval]_vars

(* With burst two, the third release came by the first refill, in the same *)
(* instant as the second release and a full interval after the first.      *)
TokenBucketTimingWitness ==
    /\ rl.burst = 2
    /\ Len(batches) = 3
    /\ refills = 1
    /\ batches[3].by = "refill"
    /\ batches[2].age = 0
    /\ batches[1].age = Interval

(* C12 - Telemetry throttling.  Any two events that passed the throttle   *)
(* are at least reporting_interval apart; an event handled less than       *)
(* reporting_interval after the last one that passed spawns no request and *)
(* leaves last_telemetry_update as it is; the first event handled after    *)
(* construction passes, with one request per endpoint.                      *)
TelemetryThrottling ==
    /\ [](\A i, j \in DOMAIN tel.sent :
            i < j => tel.sent[j] - tel.sent[i] >= tel.reporting_interval)
    /\ [][(tel'.handled = tel.handled + 1 /\ tel.sent # <<>>
             /\ tel.clock - tel.sent[Len(tel.sent)] < tel.reporting_interval) =>
            /\ tel'.sent = tel.sent
            /\ tel'.requests = tel.requests
            /\ tel'.last_telemetry_update = tel.last_telemetry_update]_vars
    /\ [][(tel.handled = 0 /\ tel'.handled = 1) =>
            /\ tel'.sent = <<tel.clock>>
            /\ tel'.requests = tel.endpoints
            /\ tel'.last_telemetry_update = tel.clock]_vars

(* With a positive interval, two events passed the throttle and two more   *)
(* were dropped.                                                            *)
TelemetryThrottlingWitness ==
    /\ tel.reporting_interval >= 2
    /\ tel.endpoints >= 1
    /\ Len(tel.sent) = 2
    /\ tel.handled = 4
    /\ tel.requests = 2 * tel.endpoints

(* C13 - Token bound.  tokens stays within 0..burst, and while a refill is *)
(* scheduled tokens is below burst, so the increment of the refill never   *)
(* passes burst (it is min(burst, tokens+1)); the release only decrements  *)
(* a positive tokens.                                                      *)
TokenBound ==
    /\ tokens >= 0
    /\ tokens <= rl.burst
    /\ next_token # <<>> => tokens + 1 <= rl.burst

(* A refill has brought the bucket of capacity two back to full. *)
TokenBoundWitness ==
    /\ refills >= 2
    /\ tokens = rl.burst
    /\ rl.burst >= 2

(* C14 - Refill scheduling invariant.  Whenever the dispatcher is suspended *)
(* in its select!, a refill is scheduled exactly when tokens < burst; the   *)
(* schedule holds at most one deadline.                                     *)
RefillScheduledIffBelowBurst ==
    /\ Len(next_token) <= 1
    /\ disp = "wait" => (next_token # <<>> <=> tokens < rl.burst)

(* The dispatcher waits with a bucket neither empty nor full and a refill   *)
(* scheduled, and it has waited with a full bucket before.                  *)
RefillScheduledWitness ==
    /\ disp = "wait"
    /\ tokens > 0 /\ tokens < rl.burst
    /\ next_token # <<>>
    /\ refills >= 1

(* The calls of the batches, one batch after the other. *)
RECURSIVE FlatCalls(_)
FlatCalls(bs) == IF bs = <<>> THEN <<>> ELSE Head(bs).calls \o FlatCalls(Tail(bs))

IsPrefix(s, t) == Len(s) <= Len(t) /\ SubSeq(t, 1, Len(s)) = s

(* C16 - FIFO argument order.  The calls of the released batches, batch    *)
(* after batch in release order, followed by the pending queue, are the    *)
(* calls in the order the dispatcher received them; the arguments handed   *)
(* to a handler are those of its batch's calls in that order.              *)
FifoOrder ==
    /\ IsPrefix(FlatCalls(batches), received)
    /\ disp # "panicked" => FlatCalls(batches) \o calls = received
    /\ \A b \in Batches :
          Started(b) =>
            batches[b].args = [i \in DOMAIN batches[b].calls |-> arg[batches[b].calls[i]]]

(* Two batches were released and run, the later one with two calls. *)
FifoOrderWitness ==
    /\ Len(batches) >= 2
    /\ Len(batches[2].calls) >= 2
    /\ Started(1) /\ Started(2)

(* C17 - One token per batch.  A step that releases a batch hands it the   *)
(* whole queue and takes one token (of those left after a refill in the    *)
(* same step); once the task has started, batches released + tokens =      *)
(* burst + refills fired.                                                   *)
OneTokenPerBatch ==
    /\ [](disp # "start" => Len(batches) + tokens = rl.burst + refills)
    /\ [][Len(batches') = Len(batches) + 1 =>
            /\ tokens' = tokens + (refills' - refills) - 1
            /\ calls' = <<>>
            /\ IsPrefix(calls, batches'[Len(batches')].calls)
            /\ Len(batches'[Len(batches')].calls) <= Len(calls) + 1]_vars

(* A batch of two calls was released after a refill. *)
OneTokenPerBatchWitness ==
    /\ refills >= 1
    /\ \E b \in Batches : Len(batches[b].calls) >= 2

(* C18 - Fixed refill deadline.  While a refill is scheduled, a step       *)
(* either leaves the remaining time as it is (a call arrives, the channel  *)
(* closes, a batch is released, callers and batches move), or is the       *)
(* passing of one unit of time, or is the firing of the refill at its      *)
(* deadline: nothing moves the deadline.                                    *)
FixedRefillDeadline ==
    [][next_token # <<>> =>
         \/ next_token' = next_token /\ refills' = refills
         \/ /\ next_token[1] > 0
            /\ next_token' = <<next_token[1] - 1>>
            /\ UNCHANGED <<stream, disp, calls, closed, tokens, refills, received>>
         \/ next_token = <<0>> /\ refills' = refills + 1]_vars

(* Two calls arrived while the refill was scheduled, and its deadline has  *)
(* come.                                                                    *)
FixedRefillDeadlineWitness ==
    /\ next_token = <<0>>
    /\ Len(calls) >= 2
    /\ disp = "wait"

(* C19 - No back-pressure.  While batches are in flight the dispatcher     *)
(* holds back nothing it could release, and its refill, its receive and    *)
(* its close steps are enabled as they would be with no batch running.     *)
NoBackPressure ==
    ((\E b \in Batches : InFlight(b)) /\ disp = "wait") =>
        /\ calls # <<>> => tokens = 0
        /\ next_token = <<0>> => ENABLED Refill
        /\ (~closed /\ stream # <<>>) => ENABLED RecvCall
        /\ (~closed /\ stream = <<>> /\ Senders = 0) => ENABLED RecvClosed

(* Two batches were in flight together and the later one is done while the *)
(* earlier one still runs.                                                  *)
OutOfOrderCompletionWitness ==
    \E b1, b2 \in Batches :
        /\ b1 < b2
        /\ batches[b1].st = "running"
        /\ batches[b2].st = "done"

(* C20 - No empty batch.  Every released batch holds at least one call, so *)
(* the first call's handler exists; a refill that finds the queue empty    *)
(* releases nothing and only adds the token.                                *)
NoEmptyBatch ==
    /\ [](\A b \in Batches : batches[b].calls # <<>>)
    /\ [][(refills' = refills + 1 /\ calls = <<>>) =>
            /\ batches' = batches
            /\ tokens' = tokens + 1
            /\ calls' = <<>>]_vars

(* A refill has found the queue empty: the bucket is full again after a    *)
(* batch was released and run.                                              *)
NoEmptyBatchWitness ==
    /\ refills >= 1
    /\ tokens = rl.burst
    /\ batches # <<>>
    /\ Started(1)

(* The argument collections of the batches, one after the other. *)
RECURSIVE FlatArgs(_)
FlatArgs(bs) == IF bs = <<>> THEN <<>> ELSE Head(bs).args \o FlatArgs(Tail(bs))

AllDone == \A c \in AllCallers : pc[c] = "done"

(* C4 as stated - End-to-end example.  When the five callers have          *)
(* returned there was exactly one handler invocation, on <<0,1,2,3,4>>,    *)
(* and caller i returned 2*i.                                              *)
E2EOneInvocation ==
    AllDone =>
        /\ Len(batches) = 1
        /\ SeqSum(hexec) = 1
        /\ batches[1].args = E2EArgs
        /\ \A c \in AllCallers : result[c] = <<2 * E2EArgs[c]>>

(* C4 as amended - End-to-end example.  The first call is released alone,  *)
(* at once, by the token of the fresh bucket; a first refill that finds    *)
(* the other four calls pending releases them as one batch <<1,2,3,4>>;    *)
(* when the five callers have returned there were between two and five     *)
(* handler invocations, one per batch, the first on <<0>>, whose argument  *)
(* collections put one after the other are <<0,1,2,3,4>>, and caller i     *)
(* returned 2*i.                                                           *)
E2ETwoOrMoreInvocations ==
    /\ [](AllDone =>
            /\ Len(batches) >= 2 /\ Len(batches) <= Len(E2EArgs)
            /\ SeqSum(hexec) = Len(batches)
            /\ \A b \in Batches : hexec[batches[b].calls[1]] = 1
            /\ batches[1].args = <<E2EArgs[1]>>
            /\ FlatArgs(batches) = E2EArgs
            /\ \A c \in AllCallers : result[c] = <<2 * E2EArgs[c]>>)
    /\ [][(refills = 0 /\ refills' = 1 /\ Len(received) = Len(E2EArgs)) =>
            /\ Len(batches') = 2
            /\ batches'[2].calls = Tail(received)
            /\ calls' = <<>>]_vars

(* The five callers returned after two invocations, on <<0>> and <<1,2,3,4>>. *)
E2ETwoInvocationsWitness ==
    /\ AllDone
    /\ Len(batches) = 2
    /\ batches[2].args = Tail(E2EArgs)
    /\ result = [c \in AllCallers |-> <<2 * E2EArgs[c]>>]

(* C5 - Eventual delivery.  Under fair scheduling, with a positive qps and *)
(* well-behaved handlers, a call that is enqueued and waiting eventually   *)
(* returns its result, unless its caller abandons it.                      *)
EventualDelivery ==
    \A c \in Callers : (pc[c] = "waiting") ~> (pc[c] \in {"done", "abandoned"})

(* The same for a bucket that can hold a token. *)
EventualDeliveryPositiveBurst ==
    \A c \in Callers :
        (rl.burst > 0 /\ pc[c] = "waiting") ~> (pc[c] \in {"done", "abandoned"})

(* C21 - No call waits while a token is available.  Whenever the          *)
(* dispatcher is suspended, the pending queue is empty or tokens = 0; a    *)
(* call received while tokens > 0 is released in the same step, alone in   *)
(* its batch; a batch of more than one call was released by a refill.      *)
NoCallWaitsForToken ==
    /\ [](disp = "wait" => (calls = <<>> \/ tokens = 0))
    /\ [](\A b \in Batches : Len(batches[b].calls) > 1 => batches[b].by = "refill")
    /\ [][(Len(received') = Len(received) + 1 /\ tokens > 0) =>
            /\ Len(batches') = Len(batches) + 1
            /\ batches'[Len(batches')].calls = <<received'[Len(received')]>>
            /\ calls' = <<>>]_vars

(* One call was released alone on its arrival, and a batch of two by a     *)
(* refill.                                                                  *)
NoCallWaitsForTokenWitness ==
    \E b1, b2 \in Batches :
        /\ batches[b1].by = "recv" /\ Len(batches[b1].calls) = 1
        /\ batches[b2].by = "refill" /\ Len(batches[b2].calls) = 2

(* C22 as stated - The wait always has an enabled alternative.  Wherever   *)
(* the dispatcher is suspended the loop condition holds and a refill is    *)
(* scheduled or the endpoint is not closed, and, the rate limit being      *)
(* admitted, the dispatcher task never panics.                              *)
WaitAlwaysEnabled ==
    /\ disp = "wait" => (LoopCond(calls, closed) /\ ~SelectDisabled(closed, next_token))
    /\ rl.qps > 0 => disp # "panicked"

(* The same for a bucket that can hold a token. *)
WaitAlwaysEnabledPositiveBurst ==
    (rl.qps > 0 /\ rl.burst > 0) =>
        /\ disp # "panicked"
        /\ disp = "wait" => (LoopCond(calls, closed) /\ ~SelectDisabled(closed, next_token))

(* C23 - Fault isolation of a batch.  A step of a batch task, failing or   *)
(* not, leaves the dispatcher's state, the other batches and the callers   *)
(* outside the batch as they are; whatever became of the other batches, a  *)
(* batch task can take its next step and a caller with a result can        *)
(* receive it.                                                              *)
FaultIsolation ==
    /\ [][\A b \in Batches :
            batches'[b].st # batches[b].st =>
              /\ UNCHANGED <<stream, disp, calls, closed, tokens, next_token,
                             refills, received>>
              /\ \A b2 \in Batches \ {b} : batches'[b2] = batches[b2]
              /\ \A c \in AllCallers :
                    ~InBatch(c, b) =>
                        /\ outbox'[c] = outbox[c]
                        /\ pc'[c] = pc[c]
                        /\ result'[c] = result[c]]_vars
    /\ [](\A b \in Batches :
            /\ batches[b].st = "spawned" => ENABLED ExecStart(b)
            /\ batches[b].st = "running" => ENABLED ExecFinish(b, "double"))
    /\ [](\A c \in AllCallers :
            (pc[c] = "waiting" /\ outbox[c].st = "full") => ENABLED Receive(c))

(* The second of three batches failed; the callers of the first and of the *)
(* third have their results, the caller of the second has none.            *)
FaultIsolationWitness ==
    /\ Len(batches) = 3
    /\ batches[2].st = "panicked"
    /\ batches[1].st = "done" /\ batches[3].st = "done"
    /\ \A c \in AllCallers :
          pc[c] = IF InBatch(c, 2) THEN "failed" ELSE "done"

(* C15 - Shutdown drains and terminates.  Under the fair scheduling of    *)
(* SpecLive, once the dispatcher has seen its channel closed it eventually *)
(* exits its loop with the pending queue empty and every call it received  *)
(* released in a batch.                                                     *)
ShutdownDrains ==
    closed ~> (disp = "done" /\ calls = <<>> /\ FlatCalls(batches) = received)

(* The same for a bucket that can hold a token. *)
ShutdownDrainsPositiveBurst ==
    (rl.burst > 0 /\ closed) ~>
        (disp = "done" /\ calls = <<>> /\ FlatCalls(batches) = received)

====
